---- MODULE Spec2Model ----
(***************************************************************************)
(* TopSearch: the view state of the App component                          *)
(* (src/frontend/src/App.js), its three event handlers, the field editors  *)
(* and the settlement of the axios.get calls the handlers await.           *)
(*                                                                         *)
(* A handler is a closure of the render that created it: it reads the      *)
(* state values of that render, and a set...() call only takes effect at   *)
(* the next render.  React re-renders between two discrete events, so a    *)
(* handler reads the unprimed variables and its set...() calls are the     *)
(* primed ones; a value read after a set...() in the same handler is still *)
(* the unprimed one.                                                       *)
(***************************************************************************)
EXTENDS Naturals, Sequences, FiniteSets

VARIABLES
    selectedCollection, \* useState("")  App.js:6
    year,               \* useState("")  App.js:7
    startYear,          \* useState("")  App.js:8
    endYear,            \* useState("")  App.js:9
    queryString,        \* useState("")  App.js:10
    articles,           \* useState([])  App.js:11
    error,              \* useState("")  App.js:12
    pending,            \* the axios.get calls awaited, in the order issued
    event               \* what ran last, and the axios.get calls it made

vars == <<selectedCollection, year, startYear, endYear, queryString,
          articles, error, pending, event>>

view == <<selectedCollection, year, startYear, endYear, queryString>>

----------------------------------------------------------------------------
(* Bounds and input sets *)

\* the most axios.get calls awaited at once
MaxInFlight == 2

\* App.js:13
collections == <<"CSCV", "CsAI", "CsCL", "CsLG", "StatML">>

CollectionSet == {collections[i] : i \in 1..Len(collections)}

\* e.target.value of an <input type="number"> is a string, "" when blank
YearInputs      == {"", "0"}
StartYearInputs == {"", "2019"}
EndYearInputs   == {"", "2021"}

\* e.target.value of the text input
QueryInputs == {"", "gan"}

Article1 == [id |-> 1, title |-> "A", summary |-> "S"]

\* response.data of a 2xx response
Bodies == {<< >>, <<Article1>>}

\* the message of the error axios rejects with
Causes == {"Network Error", "Request failed with status code 500"}

----------------------------------------------------------------------------
(* The fixed texts (without their accents) *)

\* App.js:19 and App.js:46
ErrNoCollection == "Veuillez selectionner une collection."
\* App.js:52
ErrNoQuery      == "Veuillez entrer un terme de recherche."
\* App.js:37
ErrArticles     == "Erreur lors de la recuperation des articles."
\* App.js:67
ErrSimilarity   == "Erreur lors de la recherche par similarite."

FixedTexts == {ErrNoCollection, ErrNoQuery, ErrArticles, ErrSimilarity}

----------------------------------------------------------------------------
(* JavaScript helpers *)

\* if (s) / !s on a string: only the empty string is falsy ("0" is truthy)
Truthy(s) == s # ""

\* const params = {}
EmptyParams == [k \in {} |-> ""]

\* params.k = v
SetParam(p, k, v) == [x \in (DOMAIN p) \cup {k} |-> IF x = k THEN v ELSE p[x]]

\* SearchParams sending every field, blank ones included
SearchParamsAllKeys(y, s, e) ==
    [k \in {"year", "start_year", "end_year"} |->
        IF k = "year" THEN y ELSE IF k = "start_year" THEN s ELSE e]

\* SearchParams sending the filters only when no other call is awaited
SearchParamsWhenIdle(y, s, e) ==
    IF pending = << >>
    THEN [k \in {x \in {"year", "start_year", "end_year"} :
                    (IF x = "year" THEN y ELSE IF x = "start_year" THEN s ELSE e) # ""}
            |-> IF k = "year" THEN y ELSE IF k = "start_year" THEN s ELSE e]
    ELSE EmptyParams

\* App.js:25-29
SearchParams(y, s, e) ==
    LET p0 == EmptyParams
        p1 == IF Truthy(y) THEN SetParam(p0, "year", y) ELSE p0
        p2 == IF Truthy(s) THEN SetParam(p1, "start_year", s) ELSE p1
        p3 == IF Truthy(e) THEN SetParam(p2, "end_year", e) ELSE p2
    IN  p3

\* App.js:32  axios.get(`/collections/${selectedCollection}/articles`, { params })
SearchRequest(c, y, s, e) ==
    [op |-> "articles", collection |-> c, params |-> SearchParams(y, s, e)]

\* App.js:58-63
SimilarityRequest(c, q) ==
    [op |-> "search", collection |-> c,
     params |-> SetParam(EmptyParams, "query_string", q)]

\* The call a handler awaits, named by the path of its request
Awaited(request) == [op |-> request.op, collection |-> request.collection]

NoCall == [op |-> "", collection |-> ""]

\* What ran last (kept for the record only, no handler reads it): a handler
\* and the axios.get calls it made, or a continuation with the call that
\* settled, response.data and the number of calls still awaited that were
\* issued before the settled one.
Ran(what, calls) ==
    [type |-> what, calls |-> calls, settled |-> NoCall, data |-> << >>,
     overtook |-> 0]

Settled(what, call, data, older) ==
    [type |-> what, calls |-> << >>, settled |-> call, data |-> data,
     overtook |-> older]

RemoveAt(s, i) == [j \in 1..(Len(s) - 1) |-> IF j < i THEN s[j] ELSE s[j + 1]]

----------------------------------------------------------------------------
Init ==
    /\ selectedCollection = ""
    /\ year = ""
    /\ startYear = ""
    /\ endYear = ""
    /\ queryString = ""
    /\ articles = << >>
    /\ error = ""
    /\ pending = << >>
    /\ event = Ran("mount", << >>)

----------------------------------------------------------------------------
(* handleSearch, App.js:17-33, up to its await: the precondition and the   *)
(* call of axios.get, with the state values of the render the handler      *)
(* belongs to.  calls' is the list of the calls made.                      *)

\* SearchRejected without the check of the selection
SearchRejectedNever(c) == FALSE

\* App.js:18  if (!selectedCollection)
SearchRejected(c) == ~Truthy(c)

\* handleSearchCall clearing the error message before it sends the request
handleSearchCallClearsError(type) ==
    IF SearchRejected(selectedCollection)
    THEN /\ error' = ErrNoCollection
         /\ pending' = pending
         /\ event' = Ran(type, << >>)
    ELSE LET request == SearchRequest(selectedCollection, year, startYear, endYear)
         IN  /\ Len(pending) < MaxInFlight
             /\ pending' = Append(pending, Awaited(request))
             /\ event' = Ran(type, <<request>>)
             /\ error' = ""

handleSearchCall(type) ==
    IF SearchRejected(selectedCollection)
    THEN /\ error' = ErrNoCollection
         /\ pending' = pending
         /\ event' = Ran(type, << >>)
    ELSE LET request == SearchRequest(selectedCollection, year, startYear, endYear)
         IN  /\ Len(pending) < MaxInFlight
             /\ pending' = Append(pending, Awaited(request))
             /\ event' = Ran(type, <<request>>)
             /\ error' = error

\* handleSearch refusing to run while a failure text is on display
handleSearchUnlessFailed ==
    /\ error \notin {ErrArticles, ErrSimilarity}
    /\ handleSearchCall("search")
    /\ UNCHANGED <<view, articles>>

\* onClick={handleSearch}, App.js:148
handleSearch ==
    /\ handleSearchCall("search")
    /\ UNCHANGED <<view, articles>>

\* SimilarityError checking the search term first
SimilarityErrorTermFirst(c, q) ==
    IF ~Truthy(q) THEN ErrNoQuery
    ELSE IF ~Truthy(c) THEN ErrNoCollection
    ELSE ""

\* SimilarityError without the check of the search term
SimilarityErrorNoTermCheck(c, q) ==
    IF ~Truthy(c) THEN ErrNoCollection ELSE ""

\* App.js:45-54: the text of the precondition that fails, "" when none does
SimilarityError(c, q) ==
    IF ~Truthy(c) THEN ErrNoCollection
    ELSE IF ~Truthy(q) THEN ErrNoQuery
    ELSE ""

\* onClick={handleSimilaritySearch}, App.js:44-63 and App.js:158
handleSimilaritySearch ==
    /\ IF SimilarityError(selectedCollection, queryString) # ""
       THEN /\ error' = SimilarityError(selectedCollection, queryString)
            /\ pending' = pending
            /\ event' = Ran("similarity", << >>)
       ELSE LET request == SimilarityRequest(selectedCollection, queryString)
            IN  /\ Len(pending) < MaxInFlight
                /\ pending' = Append(pending, Awaited(request))
                /\ event' = Ran("similarity", <<request>>)
                /\ error' = error
    /\ UNCHANGED <<view, articles>>

\* DatesEmpty looking at the year only
DatesEmptyYearOnly(y, s, e) == ~Truthy(y)

\* App.js:79  if (!year && !startYear && !endYear)
DatesEmpty(y, s, e) == ~Truthy(y) /\ ~Truthy(s) /\ ~Truthy(e)

\* handleCollectionChange emptying the result list of the collection left
handleCollectionChangeClearsList(collection) ==
    /\ collection # selectedCollection
    /\ selectedCollection' = collection
    /\ IF DatesEmpty(year, startYear, endYear)
       THEN handleSearchCall("collection")
       ELSE /\ event' = Ran("collection", << >>)
            /\ UNCHANGED <<error, pending>>
    /\ articles' = << >>
    /\ UNCHANGED <<year, startYear, endYear, queryString>>

\* onChange={handleCollectionChange}, App.js:73-82.  A radio input fires
\* onChange only when it becomes the checked one.  handleSearch() is the
\* closure of the same render: it reads the selectedCollection of that
\* render, not the value passed to setSelectedCollection.
handleCollectionChange(collection) ==
    /\ collection # selectedCollection
    /\ selectedCollection' = collection
    /\ IF DatesEmpty(year, startYear, endYear)
       THEN handleSearchCall("collection")
       ELSE /\ event' = Ran("collection", << >>)
            /\ UNCHANGED <<error, pending>>
    /\ UNCHANGED <<year, startYear, endYear, queryString, articles>>

\* onChange={(e) => setYear(e.target.value)}, App.js:126
setYear(v) ==
    /\ v # year
    /\ year' = v
    /\ event' = Ran("edit", << >>)
    /\ UNCHANGED <<selectedCollection, startYear, endYear, queryString,
                   articles, error, pending>>

\* App.js:135
setStartYear(v) ==
    /\ v # startYear
    /\ startYear' = v
    /\ event' = Ran("edit", << >>)
    /\ UNCHANGED <<selectedCollection, year, endYear, queryString,
                   articles, error, pending>>

\* App.js:144
setEndYear(v) ==
    /\ v # endYear
    /\ endYear' = v
    /\ event' = Ran("edit", << >>)
    /\ UNCHANGED <<selectedCollection, year, startYear, queryString,
                   articles, error, pending>>

\* App.js:155
setQueryString(v) ==
    /\ v # queryString
    /\ queryString' = v
    /\ event' = Ran("edit", << >>)
    /\ UNCHANGED <<selectedCollection, year, startYear, endYear,
                   articles, error, pending>>

----------------------------------------------------------------------------
(* The continuations after the await *)

\* call i is awaited and a call issued after it was fulfilled in the step
\* before
Overtaken(i) ==
    /\ event.type \in {"response", "late response"}
    /\ i <= event.overtook

\* ResponseArticles adding the response to the list shown
ResponseArticlesAppended(i, data) == articles \o data

\* ResponseArticles dropping the response of a call that a later call has
\* overtaken
ResponseArticlesUnlessOvertaken(i, data) ==
    IF Overtaken(i) THEN articles ELSE data

\* setArticles(response.data), App.js:34 and App.js:64
ResponseArticles(i, data) == data

\* App.js:34-35 and App.js:64-65
Fulfilled(i, data) ==
    /\ i \in 1..Len(pending)
    /\ articles' = ResponseArticles(i, data)
    /\ error' = ""
    /\ pending' = RemoveAt(pending, i)
    /\ event' = Settled(IF Overtaken(i) THEN "late response" ELSE "response",
                        pending[i], data, i - 1)
    /\ UNCHANGED view

\* FailureText with one text for both operations
FailureTextShared(op, cause) == ErrArticles

\* FailureText showing the message of the error caught
FailureTextFromCause(op, cause) == cause

\* setError(...) of the catch, App.js:37 and App.js:67; the error caught goes
\* to console.error only
FailureText(op, cause) == IF op = "articles" THEN ErrArticles ELSE ErrSimilarity

\* Rejected resetting the search term
RejectedClearsQuery(i, cause) ==
    /\ i \in 1..Len(pending)
    /\ error' = FailureText(pending[i].op, cause)
    /\ pending' = RemoveAt(pending, i)
    /\ event' = Settled("failure", pending[i], << >>, 0)
    /\ queryString' = ""
    /\ UNCHANGED <<selectedCollection, year, startYear, endYear, articles>>

\* Rejected emptying the result list
RejectedClearsList(i, cause) ==
    /\ i \in 1..Len(pending)
    /\ error' = FailureText(pending[i].op, cause)
    /\ pending' = RemoveAt(pending, i)
    /\ event' = Settled("failure", pending[i], << >>, 0)
    /\ articles' = << >>
    /\ UNCHANGED view

\* App.js:36-39 and App.js:66-69
Rejected(i, cause) ==
    /\ i \in 1..Len(pending)
    /\ error' = FailureText(pending[i].op, cause)
    /\ pending' = RemoveAt(pending, i)
    /\ event' = Settled("failure", pending[i], << >>, 0)
    /\ UNCHANGED <<view, articles>>

----------------------------------------------------------------------------
Next ==
    \/ \E c \in CollectionSet : handleCollectionChange(c)
    \/ \E v \in YearInputs : setYear(v)
    \/ \E v \in StartYearInputs : setStartYear(v)
    \/ \E v \in EndYearInputs : setEndYear(v)
    \/ \E v \in QueryInputs : setQueryString(v)
    \/ handleSearch
    \/ handleSimilaritySearch
    \/ \E i \in 1..MaxInFlight, data \in Bodies : Fulfilled(i, data)
    \/ \E i \in 1..MaxInFlight, cause \in Causes : Rejected(i, cause)

Spec == Init /\ [][Next]_vars

----------------------------------------------------------------------------
(* Vocabulary of the properties *)

Responses == {"response", "late response"}

\* the date fields by the name of their query parameter
DateField(k) ==
    IF k = "year" THEN year ELSE IF k = "start_year" THEN startYear ELSE endYear

FilledDateKeys == {k \in {"year", "start_year", "end_year"} : DateField(k) # ""}

\* a step that runs handleSearch: the button, or a selection with no date
CriteriaSearchRuns ==
    \/ event'.type = "search"
    \/ event'.type = "collection" /\ FilledDateKeys = {}

----------------------------------------------------------------------------
(* C1.  Selecting a collection while year, start-year and end-year are all  *)
(* empty issues exactly one request, to /collections/c/articles for the    *)
(* collection c just selected, with no query parameters.                   *)
C1_SelectionLoadsNewCollection ==
    (event.type = "collection" /\ FilledDateKeys = {})
        => /\ Len(event.calls) = 1
           /\ event.calls[1].op = "articles"
           /\ event.calls[1].collection = selectedCollection
           /\ event.calls[1].params = EmptyParams

(* C2.  A selection made while a date field is filled issues no request    *)
(* and changes neither the result list nor the error message, only the     *)
(* selected collection; requests are issued by nothing but the two search  *)
(* controls and a selection with no date.                                  *)
C2_SelectionWithDateOnlySelects ==
    [][ /\ (event'.type = "collection" /\ FilledDateKeys # {})
            => /\ event'.calls = << >>
               /\ pending' = pending
               /\ articles' = articles
               /\ error' = error
               /\ selectedCollection' \in CollectionSet \ {selectedCollection}
               /\ UNCHANGED <<year, startYear, endYear, queryString>>
        /\ (event'.calls # << >> \/ Len(pending') > Len(pending))
            => \/ event'.type \in {"search", "similarity"}
               \/ event'.type = "collection" /\ FilledDateKeys = {}
      ]_vars

C2_Witness ==
    /\ event.type = "collection"
    /\ event.calls = << >>
    /\ startYear # ""
    /\ selectedCollection = collections[2]
    /\ error = ErrArticles
    /\ articles = <<Article1>>

(* C3.  A criteria search run while no collection is selected issues no    *)
(* request, sets the error message to the "select a collection" text and   *)
(* leaves the result list as it was, whatever the date fields hold.        *)
C3_SearchWithoutCollection ==
    [][ (CriteriaSearchRuns /\ selectedCollection = "")
            => /\ event'.calls = << >>
               /\ pending' = pending
               /\ error' = ErrNoCollection
               /\ articles' = articles
      ]_vars

C3_Witness ==
    /\ event.type = "search"
    /\ selectedCollection = ""
    /\ year # ""
    /\ endYear # ""
    /\ error = ErrNoCollection
    /\ pending = << >>

(* C4.  A criteria search that passes its precondition issues one request  *)
(* to /collections/{collection}/articles, for the collection held when the *)
(* search runs, whose parameters are exactly the keys year, start_year,    *)
(* end_year of the filled fields, each with the value of its field.        *)
C4_ParamsAreTheFilledFields ==
    [][ (CriteriaSearchRuns /\ selectedCollection # "")
            => /\ Len(event'.calls) = 1
               /\ pending' = Append(pending, Awaited(event'.calls[1]))
               /\ event'.calls[1].op = "articles"
               /\ event'.calls[1].collection = selectedCollection
               /\ DOMAIN event'.calls[1].params = FilledDateKeys
               /\ \A k \in FilledDateKeys : event'.calls[1].params[k] = DateField(k)
      ]_vars

C4_Witness ==
    /\ event.type = "search"
    /\ Len(event.calls) = 1
    /\ event.calls[1].collection = selectedCollection
    /\ DOMAIN event.calls[1].params = {"year", "end_year"}
    /\ event.calls[1].params["year"] = "0"
    /\ startYear = ""

(* C5.  Similarity search checks the collection first, then the search     *)
(* term: a failed check issues no request, sets its own error text and     *)
(* leaves the result list; with both present it issues exactly one request *)
(* to /collections/{collection}/search with the single parameter           *)
(* query_string, the search term.                                          *)
C5_SimilarityPreconditions ==
    [][ event'.type = "similarity"
            => IF selectedCollection = "" \/ queryString = ""
               THEN /\ event'.calls = << >>
                    /\ pending' = pending
                    /\ articles' = articles
                    /\ error' = IF selectedCollection = ""
                                THEN ErrNoCollection ELSE ErrNoQuery
               ELSE /\ Len(event'.calls) = 1
                    /\ pending' = Append(pending, Awaited(event'.calls[1]))
                    /\ event'.calls[1].op = "search"
                    /\ event'.calls[1].collection = selectedCollection
                    /\ DOMAIN event'.calls[1].params = {"query_string"}
                    /\ event'.calls[1].params["query_string"] = queryString
                    /\ error' = error
                    /\ articles' = articles
      ]_vars

C5_Witness ==
    /\ event.type = "similarity"
    /\ selectedCollection # ""
    /\ queryString = ""
    /\ error = ErrNoQuery
    /\ event.calls = << >>
    /\ articles = <<Article1>>

(* C6.  When a request settles with a response, the result list is the     *)
(* response body, neither merged with nor appended to the list before, and *)
(* the error message is empty.                                             *)
C6_ResponseReplacesList ==
    event.type \in Responses => (articles = event.data /\ error = "")

C6_Witness ==
    /\ event.type = "response"
    /\ event.settled.op = "articles"
    /\ event.data = <<Article1>>
    /\ articles = <<Article1>>
    /\ error = ""

(* C7.  When a request settles with a failure, the result list stays as it *)
(* was and the error message is the failure text of the operation that     *)
(* issued the request, the two texts being different.                      *)
C7_FailureKeepsList ==
    [][ event'.type = "failure"
            => /\ articles' = articles
               /\ event'.settled \in {pending[i] : i \in 1..Len(pending)}
               /\ event'.settled.op = "articles" => error' = ErrArticles
               /\ event'.settled.op = "search" => error' = ErrSimilarity
               /\ event'.settled.op \in {"articles", "search"}
               /\ ErrArticles # ErrSimilarity
      ]_vars

C7_Witness ==
    /\ event.type = "failure"
    /\ event.settled.op = "search"
    /\ error = ErrSimilarity
    /\ articles = <<Article1>>

(* C8.  Requests overlap and settle in any order, and every response is    *)
(* applied: the response of a call that a later call has overtaken, and    *)
(* the response that arrives while later calls are still awaited, become   *)
(* the result list all the same (the last to settle wins).                 *)
C8_LastSettledWins ==
    /\ event.type = "late response" => articles = event.data
    /\ (event.type \in Responses /\ pending # << >>) => articles = event.data

C8_Witness ==
    /\ event.type = "late response"
    /\ event.data = <<Article1>>
    /\ articles = <<Article1>>
    /\ pending = << >>

(* C9.  Only a selection changes the selected collection and only an edit  *)
(* changes year, start-year, end-year or the search term: no search,       *)
(* accepted or rejected, and no settlement changes any of them.            *)
C9_SearchesKeepTheForm ==
    [][ /\ event'.type # "collection" => selectedCollection' = selectedCollection
        /\ event'.type # "edit"
            => UNCHANGED <<year, startYear, endYear, queryString>>
      ]_vars

C9_Witness ==
    /\ event.type = "failure"
    /\ selectedCollection = collections[5]
    /\ year = "0"
    /\ queryString = "gan"
    /\ articles = <<Article1>>

(* C10.  The error message is always empty or one of the four fixed texts, *)
(* never the message of the error a request failed with.                   *)
C10_ErrorIsAFixedText ==
    /\ error \in {""} \cup FixedTexts
    /\ error \notin Causes
    /\ Cardinality(FixedTexts) = 4

C10_Witness ==
    /\ event.type = "failure"
    /\ event.settled.op = "articles"
    /\ error = ErrArticles

C12_DispatchKeepsTheView ==
    [][ /\ event'.calls # << >>
            => /\ articles' = articles
               /\ error' = error
               /\ Len(pending') = Len(pending) + 1
        /\ Len(pending') >= Len(pending)
            => /\ articles' = articles
               /\ error' # error
                    => /\ event'.calls = << >>
                       /\ event'.type \in {"search", "similarity", "collection"}
                       /\ error' \in {ErrNoCollection, ErrNoQuery}
      ]_vars

C12_Witness ==
    /\ event.type = "search"
    /\ event.calls # << >>
    /\ error = ErrSimilarity
    /\ articles = <<Article1>>
    /\ Len(pending) = 1

(* C13.  A result list and an error message can be on display together:    *)
(* every step that ends with an error message leaves the list as it was,   *)
(* so the list on display beside an error is the body of the most recent   *)
(* response.                                                               *)
C13_StaleListBesideError ==
    [][ /\ error' # "" => articles' = articles
        /\ articles' = IF event'.type \in Responses THEN event'.data ELSE articles
      ]_vars

C13_Witness ==
    /\ event.type = "failure"
    /\ event.settled.op = "articles"
    /\ error = ErrArticles
    /\ articles = <<Article1>>
    /\ pending = << >>

(* C14.  No error state is absorbing: in every reachable state, whatever   *)
(* the error text and whatever is awaited (below MaxInFlight calls for the *)
(* events that may send one), selecting another collection, editing any    *)
(* field to another value and both searches are enabled; and a settlement  *)
(* never issues a request, so nothing is retried without a user event.     *)
UserEventsEnabled ==
    /\ \A v \in YearInputs \ {year} : ENABLED setYear(v)
    /\ \A v \in StartYearInputs \ {startYear} : ENABLED setStartYear(v)
    /\ \A v \in EndYearInputs \ {endYear} : ENABLED setEndYear(v)
    /\ \A v \in QueryInputs \ {queryString} : ENABLED setQueryString(v)
    /\ Len(pending) < MaxInFlight
        => /\ ENABLED handleSearch
           /\ ENABLED handleSimilaritySearch
           /\ \A c \in CollectionSet \ {selectedCollection} :
                 ENABLED handleCollectionChange(c)

C14_NoAbsorbingError ==
    /\ []UserEventsEnabled
    /\ [][ event'.type \in Responses \cup {"failure"}
              => /\ event'.calls = << >>
                 /\ Len(pending') = Len(pending) - 1
         ]_vars

C14_Witness ==
    /\ error = ErrSimilarity
    /\ event.type = "failure"
    /\ Len(pending) = 1
    /\ ENABLED handleSearch
    /\ ENABLED handleSimilaritySearch
    /\ ENABLED handleCollectionChange(collections[1])

(* C15.  No request has an empty collection in its path: every call        *)
(* awaited, and every call just made by a button or by a selection, is for *)
(* one of the five collection codes, and a similarity call carries a       *)
(* non-empty query_string.                                                 *)
C15_RequestsNameACollection ==
    /\ \A i \in 1..Len(pending) :
          /\ pending[i].collection \in CollectionSet
          /\ pending[i].op \in {"articles", "search"}
    /\ \A i \in 1..Len(event.calls) :
          /\ event.calls[i].collection \in CollectionSet
          /\ event.calls[i].op \in {"articles", "search"}
          /\ event.calls[i].op = "search"
                => /\ "query_string" \in DOMAIN event.calls[i].params
                   /\ event.calls[i].params["query_string"] # ""
    /\ Cardinality(CollectionSet) = 5
    /\ "" \notin CollectionSet

C15_Witness ==
    /\ event.type = "collection"
    /\ Len(event.calls) = 1
    /\ event.calls[1].collection \in CollectionSet
    /\ Len(pending) = 2
    /\ pending[1].op = "search"
    /\ pending[2] = Awaited(event.calls[1])

(* C16.  The result list changes only when a response arrives: no user     *)
(* event, rejected precondition or failure changes it.  A call keeps the   *)
(* collection held when it was issued while it is awaited, and its         *)
(* response becomes the list even when another collection has been         *)
(* selected since.                                                         *)
C16_ListChangesOnlyOnResponse ==
    [][ /\ articles' # articles => event'.type \in Responses
        /\ event'.calls # << >>
            => /\ event'.calls[1].collection = selectedCollection
               /\ pending' = Append(pending, Awaited(event'.calls[1]))
        /\ event'.calls = << >> /\ event'.type \notin Responses \cup {"failure"}
            => pending' = pending
        /\ event'.type \in Responses
            => /\ \E i \in 1..Len(pending) :
                    /\ event'.settled = pending[i]
                    /\ pending' = RemoveAt(pending, i)
               /\ selectedCollection' = selectedCollection
               /\ articles' = event'.data
      ]_vars

C16_Witness ==
    /\ event.type \in Responses
    /\ event.settled.op = "search"
    /\ event.settled.collection # selectedCollection
    /\ event.settled.collection = collections[1]
    /\ selectedCollection = collections[3]
    /\ event.data = <<Article1>>
    /\ articles = <<Article1>>

====
